---- MODULE Spec2Model ----
(***************************************************************************)
(* Lazy method-resolution trampoline of the runtime:                       *)
(* UnresolvedDirectMethodTrampolineFromCode in                             *)
(* src/oat/runtime/support_stubs.cc, callee-save-frame variant, ARM build  *)
(* (the build that contains the shorty walk of lines 141-186).             *)
(*                                                                         *)
(* Threads enter the trampoline concurrently, each over its own call       *)
(* state; the class initialization state is shared.  The class linker      *)
(* (ResolveMethod, EnsureInitialized, GetOatCodeFor) is the environment.   *)
(***************************************************************************)
EXTENDS Integers, Sequences, FiniteSets, TLC

\* ------------------------------------------------------------------ bounds
\* Calls into the trampoline generated code makes, all threads together.
MaxCalls == 2
\* Calls into the trampoline the class initializer makes.
MaxNested == 1
\* Longest shorty (return type included) the shorty-walk specification draws.
MaxShortyLen == 5

\* --------------------------------------------------------- program constants
\* Argument words passed in registers R1..R3 (lines 147-148).
kArgRegs == 3
\* regs[] words between R3 and the caller's arg4: callee saves, LR, the
\* caller's Method* and the spills of R1..R3 (line 176).
kStackSkip == 11

Threads == {"t1", "t2"}

NULL == "NULL"
\* Runtime::Current()->GetResolutionStubArray(Runtime::kUnknownMethod)->GetData()
ResolutionStub == "resolution_stub"
\* art_deliver_exception_from_code
DeliverException == "art_deliver_exception_from_code"
\* The runtime method that stands for a not yet resolved callee.
RuntimeMethod == "runtime_method"

InvokeTypes == {"kStatic", "kDirect", "kVirtual", "kSuper"}

Opcodes ==
  {"INVOKE_DIRECT", "INVOKE_DIRECT_RANGE", "INVOKE_STATIC", "INVOKE_STATIC_RANGE",
   "INVOKE_SUPER", "INVOKE_SUPER_RANGE", "INVOKE_VIRTUAL", "INVOKE_VIRTUAL_RANGE",
   "INVOKE_INTERFACE", "NOP"}

\* ---------------------------------------------------------------- methods
\* The methods of the one class the threads race on; each has the kind its
\* access flags give it.
Methods == {"sm", "dm", "vm"}

MethodKind(m) ==
  CASE m = "sm" -> "static"
    [] m = "dm" -> "direct"
    [] m = "vm" -> "virtual"

\* called->GetCode(): the code the method's entry holds.
GetCode(m) == "code_" \o m

\* linker->GetOatCodeFor(called): the method's code in the oat file.
GetOatCodeFor(m) == "oat_" \o m

\* mh.GetShorty() / linker->MethodShorty(dex_method_idx, caller, &shorty_len)
MethodShorty(m) ==
  CASE m = "sm" -> <<"V", "L", "J", "L">>
    [] m = "dm" -> <<"V", "L">>
    [] m = "vm" -> <<"L", "I", "J", "L">>

\* ------------------------------------------------------------- shorty walk
\* shorty[i] of the source: the source counts from 0.
Sh(shorty, i) == shorty[i + 1]

\* Words an argument of type c takes (lines 146, 173, 184).
ArgWords(c) == IF c = "J" \/ c = "D" THEN 2 ELSE 1

\* Lines 143-151: the loop that counts the argument words held in registers,
\* from index i with the running count n.
RECURSIVE DiscoverArgsInRegs(_, _, _)
DiscoverArgsInRegs(shorty, i, n) ==
  IF i < Len(shorty)
  THEN LET n2 == n + ArgWords(Sh(shorty, i))
       IN  IF n2 > kArgRegs THEN kArgRegs
           ELSE DiscoverArgsInRegs(shorty, i + 1, n2)
  ELSE n

\* ScopeReceiver without the receiver counted among the register arguments.
ScopeReceiver_NoCount(shorty, invoke_type) ==
  LET args_in_regs == DiscoverArgsInRegs(shorty, 1, 0)
  IN  IF invoke_type # "kStatic"
      THEN [cur_arg |-> 2, args_in_regs |-> args_in_regs,
            shorty_index |-> 1, refs |-> <<1>>]
      ELSE [cur_arg |-> 1, args_in_regs |-> args_in_regs,
            shorty_index |-> 1, refs |-> <<>>]

\* Lines 153-162: the receiver of a non-static call.  The walk state is
\* [cur_arg, args_in_regs, shorty_index, refs]; refs lists the regs[] indices
\* handed to AddLocalReference, in order.
ScopeReceiver(shorty, invoke_type) ==
  LET args_in_regs == DiscoverArgsInRegs(shorty, 1, 0)
  IN  IF invoke_type # "kStatic"
      THEN [cur_arg |-> 2,
            args_in_regs |-> IF args_in_regs < kArgRegs THEN args_in_regs + 1
                             ELSE args_in_regs,
            shorty_index |-> 1,
            refs |-> <<1>>]
      ELSE [cur_arg |-> 1, args_in_regs |-> args_in_regs,
            shorty_index |-> 1, refs |-> <<>>]

\* Lines 166-174: the arguments in the caller's registers.
RECURSIVE ScopeRegisterArgs(_, _)
ScopeRegisterArgs(shorty, w) ==
  IF (w.cur_arg - 1) < w.args_in_regs /\ w.shorty_index < Len(shorty)
  THEN LET c == Sh(shorty, w.shorty_index)
       IN  ScopeRegisterArgs(shorty,
             [w EXCEPT !.shorty_index = @ + 1,
                       !.refs = IF c = "L" THEN Append(@, w.cur_arg) ELSE @,
                       !.cur_arg = @ + ArgWords(c)])
  ELSE w

\* Line 176: skip to the caller's stack arguments.
SkipToStackArgs(w) == [w EXCEPT !.cur_arg = @ + kStackSkip]

\* Lines 177-185: the arguments on the caller's stack.
RECURSIVE ScopeStackArgs(_, _)
ScopeStackArgs(shorty, w) ==
  IF w.shorty_index < Len(shorty)
  THEN LET c == Sh(shorty, w.shorty_index)
       IN  ScopeStackArgs(shorty,
             [w EXCEPT !.shorty_index = @ + 1,
                       !.refs = IF c = "L" THEN Append(@, w.cur_arg) ELSE @,
                       !.cur_arg = @ + ArgWords(c)])
  ELSE w

\* Lines 141-186: the regs[] indices registered as local references.
ScopedRefs(shorty, invoke_type) ==
  ScopeStackArgs(shorty,
    SkipToStackArgs(ScopeRegisterArgs(shorty, ScopeReceiver(shorty, invoke_type)))).refs

\* ------------------------------------------------------------ class linker
\* The dex method indices a call site can name; the last one names no method.
DexMethodIdx == 0 .. 3

\* The method a dex method index names, NULL when it names none.
MethodAt(idx) ==
  CASE idx = 0 -> "sm"
    [] idx = 1 -> "dm"
    [] idx = 2 -> "vm"
    [] OTHER -> NULL

\* called->GetDexMethodIndex()
GetDexMethodIndex(m) == CHOOSE idx \in DexMethodIdx : MethodAt(idx) = m

\* linker->MethodShorty(dex_method_idx, caller, &shorty_len)
ShortyAt(idx) == IF MethodAt(idx) = NULL THEN <<"V", "L">> ELSE MethodShorty(MethodAt(idx))

\* called->CheckIncompatibleClassChange(invoke_type): the invoke kind does not
\* match the kind of the method.
CheckIncompatibleClassChange(m, invoke_type) ==
  CASE invoke_type = "kStatic" -> MethodKind(m) # "static"
    [] invoke_type = "kDirect" -> MethodKind(m) # "direct"
    [] invoke_type = "kVirtual" -> MethodKind(m) # "virtual"
    [] invoke_type = "kSuper" -> MethodKind(m) # "virtual"

\* linker->ResolveMethod(dex_method_idx, caller, invoke_type): the method, or
\* NULL with an exception attached to the thread.
ResolveMethod(idx, invoke_type) ==
  IF MethodAt(idx) = NULL
  THEN [method |-> NULL, exception |-> "NoSuchMethodError"]
  ELSE IF CheckIncompatibleClassChange(MethodAt(idx), invoke_type)
  THEN [method |-> NULL, exception |-> "IncompatibleClassChangeError"]
  ELSE [method |-> MethodAt(idx), exception |-> NULL]

Exceptions ==
  {"NoSuchMethodError", "IncompatibleClassChangeError", "NoClassDefFoundError",
   "ExceptionInInitializerError"}

\* ------------------------------------------------------------------- state
VARIABLES
  frames,        \* per thread: the trampoline invocations in progress, innermost last
  exception,     \* per thread: the pending exception, NULL when none
  local_refs,    \* per thread: the JNI local references open, oldest first
  calls,         \* calls generated code made so far
  nested,        \* calls the class initializer made so far
  status,        \* the status of the methods' declaring class
  clinit_thread, \* the thread running the class initializer, NULL when none
  aborted,       \* NULL, or why the process aborted
  walk,          \* the shorty walk the shorty-walk specification steps through
  backend        \* one call run through both builds by the backend specification

vars == <<frames, exception, local_refs, calls, nested, status, clinit_thread, aborted, walk, backend>>

\* regs[] index of the last word a shorty of the longest length can name.
NumRegs == kArgRegs + kStackSkip + 2 * MaxShortyLen

\* The call state on entry: regs[0] holds the method index, the other words
\* the caller's arguments.
InitialRegs == [i \in 0 .. NumRegs |-> IF i = 0 THEN "R0" ELSE "word" \o ToString(i)]

Top(t) == frames[t][Len(frames[t])]

\* The top frame of thread t is at step pc.
At(t, pc) == aborted = NULL /\ frames[t] # <<>> /\ Top(t).pc = pc

SetTop(t, f) == [frames EXCEPT ![t] = [@ EXCEPT ![Len(@)] = f]]

Init ==
  /\ frames = [t \in Threads |-> <<>>]
  /\ exception = [t \in Threads |-> NULL]
  /\ local_refs = [t \in Threads |-> <<>>]
  /\ calls = 0
  /\ nested = 0
  /\ status = "Uninitialized"
  /\ clinit_thread = NULL
  /\ aborted = NULL
  /\ walk = [pc |-> "idle"]
  /\ backend = [pc |-> "idle"]

\* NewFrame of a trampoline that leaves out FinishCalleeSaveFrameSetup.
NewFrame_NoFrameSetup(t, type, called, opcode, idx) ==
  [pc |-> "classify", type |-> type, called |-> called, opcode |-> opcode,
   vB |-> idx, invoke_type |-> "unset", dex_method_idx |-> -1, shorty |-> <<>>,
   code |-> "unset", regs |-> InitialRegs, cookie |-> Len(local_refs[t]),
   observed |-> "none", pending |-> "unset", entry |-> "unset",
   log |-> <<"ScopedJniEnvLocalRefState">>]

\* ------------------------------------------------------------- trampoline
\* Lines 35-87: entry.  FinishCalleeSaveFrameSetup makes the frame walkable,
\* then ScopedJniEnvLocalRefState saves the state of the local references.
\* With an explicit type the callee is a method of the kind the stub was
\* installed for; with kUnknownMethod it is the runtime method and the call
\* site names the callee.
NewFrame(t, type, called, opcode, idx) ==
  [pc |-> "classify", type |-> type, called |-> called, opcode |-> opcode,
   vB |-> idx, invoke_type |-> "unset", dex_method_idx |-> -1, shorty |-> <<>>,
   code |-> "unset", regs |-> InitialRegs, cookie |-> Len(local_refs[t]),
   observed |-> "none", pending |-> "unset", entry |-> "unset",
   log |-> <<"FinishCalleeSaveFrameSetup", "ScopedJniEnvLocalRefState">>]

\* The calls generated code can make into the trampoline.
Enter(t) ==
  /\ \/ \E opcode \in Opcodes, idx \in DexMethodIdx :
          frames' = [frames EXCEPT ![t] =
            Append(@, NewFrame(t, "kUnknownMethod", RuntimeMethod, opcode, idx))]
     \/ \E m \in {x \in Methods : MethodKind(x) = "static"} :
          frames' = [frames EXCEPT ![t] =
            Append(@, NewFrame(t, "kStaticMethod", m, "none", -1))]
     \/ \E m \in {x \in Methods : MethodKind(x) = "direct"} :
          frames' = [frames EXCEPT ![t] =
            Append(@, NewFrame(t, "kDirectMethod", m, "none", -1))]
  /\ UNCHANGED <<exception, local_refs, status, clinit_thread, aborted, walk, backend>>

\* Generated code of a thread that is in no trampoline calls one.
CallFromCode(t) ==
  /\ aborted = NULL
  /\ frames[t] = <<>>
  /\ calls < MaxCalls
  /\ calls' = calls + 1
  /\ Enter(t)
  /\ UNCHANGED nested

\* The class initializer, run inside EnsureInitialized, calls a method that
\* is not linked yet.
CallFromClinit(t) ==
  /\ At(t, "clinit")
  /\ nested < MaxNested
  /\ nested' = nested + 1
  /\ Enter(t)
  /\ UNCHANGED calls

\* DecodeInvokeType with the super cases falling into the virtual ones.
DecodeInvokeType_SuperAsVirtual(instr_code) ==
  CASE instr_code \in {"INVOKE_DIRECT", "INVOKE_DIRECT_RANGE"} -> "kDirect"
    [] instr_code \in {"INVOKE_STATIC", "INVOKE_STATIC_RANGE"} -> "kStatic"
    [] instr_code \in {"INVOKE_SUPER", "INVOKE_SUPER_RANGE",
                       "INVOKE_VIRTUAL", "INVOKE_VIRTUAL_RANGE"} -> "kVirtual"
    [] OTHER -> NULL

\* Lines 105-125: the invoke type of the call-site instruction; NULL stands
\* for the default label, LOG(FATAL).
DecodeInvokeType(instr_code) ==
  CASE instr_code \in {"INVOKE_DIRECT", "INVOKE_DIRECT_RANGE"} -> "kDirect"
    [] instr_code \in {"INVOKE_STATIC", "INVOKE_STATIC_RANGE"} -> "kStatic"
    [] instr_code \in {"INVOKE_SUPER", "INVOKE_SUPER_RANGE"} -> "kSuper"
    [] instr_code \in {"INVOKE_VIRTUAL", "INVOKE_VIRTUAL_RANGE"} -> "kVirtual"
    [] OTHER -> NULL

\* ExplicitInvokeType with the arms of the conditional swapped.
ExplicitInvokeType_Swapped(type) == IF type = "kStaticMethod" THEN "kDirect" ELSE "kStatic"

\* Line 133: the invoke type of an explicit trampoline type.
ExplicitInvokeType(type) == IF type = "kStaticMethod" THEN "kStatic" ELSE "kDirect"

\* Lines 98-140: invoke type, dex method index and shorty of the call.
Classify(t) ==
  /\ At(t, "classify")
  /\ LET f == Top(t)
     IN  IF f.type = "kUnknownMethod"
         THEN IF DecodeInvokeType(f.opcode) = NULL
              THEN /\ aborted' = "FATAL: Unexpected call into trampoline"
                   /\ UNCHANGED frames
              ELSE /\ frames' = SetTop(t, [f EXCEPT
                        !.pc = "scope",
                        !.opcode = "none",
                        !.vB = -1,
                        !.invoke_type = DecodeInvokeType(f.opcode),
                        !.dex_method_idx = f.vB,
                        !.shorty = ShortyAt(f.vB)])
                   /\ UNCHANGED aborted
         ELSE /\ frames' = SetTop(t, [f EXCEPT
                   !.pc = "scope",
                   !.invoke_type = ExplicitInvokeType(f.type),
                   !.dex_method_idx = GetDexMethodIndex(f.called),
                   !.shorty = MethodShorty(f.called)])
              /\ UNCHANGED aborted
  /\ UNCHANGED <<exception, local_refs, calls, nested, status, clinit_thread, walk, backend>>

\* soa.AddLocalReference<jobject>(obj) for each regs[] index of refs, in order.
RECURSIVE AddLocalReferences(_, _, _)
AddLocalReferences(table, regs, refs) ==
  IF refs = <<>> THEN table
  ELSE AddLocalReferences(Append(table, regs[Head(refs)]), regs, Tail(refs))

\* One "AddLocalReference" per reference registered.
RefEvents(refs) == [i \in 1 .. Len(refs) |-> "AddLocalReference"]

\* Lines 141-186: the object arguments become local references.
Scope(t) ==
  /\ At(t, "scope")
  /\ LET f == Top(t)
         refs == ScopedRefs(f.shorty, f.invoke_type)
     IN  /\ local_refs' = [local_refs EXCEPT ![t] = AddLocalReferences(@, f.regs, refs)]
         /\ frames' = SetTop(t, [f EXCEPT !.pc = "resolve", !.log = @ \o RefEvents(refs)])
  /\ UNCHANGED <<exception, calls, nested, status, clinit_thread, aborted, walk, backend>>

\* NeedsResolve of a trampoline that resolves on every call.
NeedsResolve_Always(type) == TRUE

\* Line 188: the callee is resolved exactly when the type is kUnknownMethod.
NeedsResolve(type) == type = "kUnknownMethod"

\* Lines 187-190: resolve the method.
Resolve(t) ==
  /\ At(t, "resolve")
  /\ LET f == Top(t)
         r == ResolveMethod(f.dex_method_idx, f.invoke_type)
     IN  IF NeedsResolve(f.type)
         THEN /\ frames' = SetTop(t, [f EXCEPT !.pc = "check", !.called = r.method,
                                                !.log = Append(@, "ResolveMethod")])
              /\ exception' = [exception EXCEPT ![t] =
                                 IF r.exception # NULL THEN r.exception ELSE @]
         ELSE /\ frames' = SetTop(t, [f EXCEPT !.pc = "check"])
              /\ UNCHANGED exception
  /\ UNCHANGED <<local_refs, calls, nested, status, clinit_thread, aborted, walk, backend>>

\* ProceedsToGate that never looks at the pending exception.
ProceedsToGate_Always(pending) == TRUE

\* Line 192: the gate is entered only when no exception is pending.
ProceedsToGate(pending) == pending = NULL

\* Lines 191-196: code = NULL; without a pending exception the callee is
\* checked and its class goes to EnsureInitialized.  A NULL callee cannot be
\* read: line 194 would dereference it.
CheckPending(t) ==
  /\ At(t, "check")
  /\ LET f == Top(t)
     IN  IF ~ProceedsToGate(exception[t])
         THEN /\ frames' = SetTop(t, [f EXCEPT !.pc = "dispatch", !.code = NULL])
              /\ UNCHANGED aborted
         ELSE IF f.called = NULL
         THEN /\ aborted' = "SIGSEGV: called is NULL"
              /\ UNCHANGED frames
         ELSE IF CheckIncompatibleClassChange(f.called, f.invoke_type)
         THEN /\ aborted' = "CHECK failed: !called->CheckIncompatibleClassChange(invoke_type)"
              /\ UNCHANGED frames
         ELSE /\ frames' = SetTop(t, [f EXCEPT !.pc = "ensure", !.code = NULL,
                                                !.log = Append(@, "EnsureInitialized")])
              /\ UNCHANGED aborted
  /\ UNCHANGED <<exception, local_refs, calls, nested, status, clinit_thread, walk, backend>>

\* Class::IsInitialized()
IsInitialized(st) == st = "Initialized"

\* Class::IsInitializing(): "at least initializing" (lines 220-221).
IsInitializing(st) == st \in {"Initializing", "Initialized"}

\* Class::IsErroneous()
IsErroneous(st) == st = "Erroneous"

\* Line 197: linker->EnsureInitialized(called_class, true, true).  An
\* initialized class returns at once; an erroneous one raises; the thread
\* that finds the class uninitialized becomes its initializer and runs the
\* class initializer; the initializer itself, re-entering, returns at once;
\* any other thread waits until the initializer is done.
EnsureInitialized(t) ==
  /\ At(t, "ensure")
  /\ status = "Initializing" => clinit_thread = t
  /\ LET f == Top(t)
     IN  CASE status = "Uninitialized" ->
                /\ status' = "Initializing"
                /\ clinit_thread' = t
                /\ frames' = SetTop(t, [f EXCEPT !.pc = "clinit"])
                /\ UNCHANGED exception
           [] status = "Erroneous" ->
                /\ exception' = [exception EXCEPT ![t] = "NoClassDefFoundError"]
                /\ frames' = SetTop(t, [f EXCEPT !.pc = "gate"])
                /\ UNCHANGED <<status, clinit_thread>>
           [] OTHER ->
                /\ frames' = SetTop(t, [f EXCEPT !.pc = "gate"])
                /\ UNCHANGED <<exception, status, clinit_thread>>
  /\ UNCHANGED <<local_refs, calls, nested, aborted, walk, backend>>

\* The class initializer ends: the class becomes Initialized, or Erroneous
\* with the error pending, and EnsureInitialized returns.
ClinitDone(t) ==
  /\ At(t, "clinit")
  /\ \E ok \in BOOLEAN :
       /\ status' = IF ok THEN "Initialized" ELSE "Erroneous"
       /\ exception' = [exception EXCEPT ![t] =
                          IF ok THEN @ ELSE "ExceptionInInitializerError"]
  /\ clinit_thread' = NULL
  /\ frames' = SetTop(t, [Top(t) EXCEPT !.pc = "gate"])
  /\ UNCHANGED <<local_refs, calls, nested, aborted, walk, backend>>

\* SelectCode that takes the method's entry while the class is initializing.
SelectCode_NoOatLookup(st, invoke_type, called) ==
  IF st \in {"Initializing", "Initialized"} THEN "code_" \o called ELSE NULL

\* SelectCode that sends a static call on an initializing class back to the
\* resolution stub.
SelectCode_RetryToSelf(st, invoke_type, called) ==
  IF st = "Initialized" THEN "code_" \o called
  ELSE IF st = "Initializing"
  THEN IF invoke_type = "kStatic" THEN ResolutionStub ELSE "code_" \o called
  ELSE NULL

\* SelectCode whose "else if (called_class->IsInitializing())" is a bare else.
SelectCode_ErroneousAsInitializing(st, invoke_type, called) ==
  IF st = "Initialized" THEN "code_" \o called
  ELSE IF invoke_type = "kStatic" THEN "oat_" \o called ELSE "code_" \o called

\* SelectCode without the "else if (called_class->IsInitializing())" branch.
SelectCode_OnlyInitialized(st, invoke_type, called) ==
  IF st = "Initialized" THEN "code_" \o called ELSE NULL

\* SelectCode that goes to the oat file for every call on an initializing class.
SelectCode_OatForAll(st, invoke_type, called) ==
  IF st = "Initialized" THEN "code_" \o called
  ELSE IF st = "Initializing" THEN "oat_" \o called
  ELSE NULL

\* Lines 198-211 over the two entries a method has: code is what
\* called->GetCode() returns and oat what linker->GetOatCodeFor(called) does.
SelectCodeFrom(st, invoke_type, code, oat) ==
  IF IsInitialized(st) THEN code
  ELSE IF IsInitializing(st)
  THEN IF invoke_type = "kStatic" THEN oat ELSE code
  ELSE NULL

\* SelectCode that takes the method's entry whatever the class status.
SelectCode_IgnoreStatus(st, invoke_type, called) == "code_" \o called

\* Lines 198-211: the code to enter given the class status seen after
\* EnsureInitialized; NULL when the class failed to initialize.
SelectCode(st, invoke_type, called) ==
  SelectCodeFrom(st, invoke_type, GetCode(called), GetOatCodeFor(called))

\* Lines 198-211.
Gate(t) ==
  /\ At(t, "gate")
  /\ LET f == Top(t)
     IN  IF ~IsInitialized(status) /\ ~IsInitializing(status) /\ ~IsErroneous(status)
         THEN /\ aborted' = "DCHECK failed: called_class->IsErroneous()"
              /\ UNCHANGED frames
         ELSE /\ frames' = SetTop(t, [f EXCEPT
                   !.pc = "dispatch",
                   !.observed = status,
                   !.code = SelectCode(status, f.invoke_type, f.called)])
              /\ UNCHANGED aborted
  /\ UNCHANGED <<exception, local_refs, calls, nested, status, clinit_thread, walk, backend>>

\* TakesExceptionPath that looks at the exception-delivery entry instead of NULL.
TakesExceptionPath_WrongSentinel(code) == code = DeliverException

\* Line 213: the exception path is taken exactly when no code was chosen.
TakesExceptionPath(code) == code = NULL

\* HandOffException without thread->ClearException().
HandOffException_NoClear(f, pending) ==
  [frame |-> [f EXCEPT !.code = DeliverException,
                       !.regs = [@ EXCEPT ![0] = pending],
                       !.log = Append(@, "WriteException")],
   pending |-> pending]

\* Lines 216-218: the frame and the thread's pending exception after the
\* exception was handed to exception delivery.
HandOffException(f, pending) ==
  [frame |-> [f EXCEPT !.code = DeliverException,
                       !.regs = [@ EXCEPT ![0] = pending],
                       !.log = Append(@, "WriteException")],
   pending |-> NULL]

\* SetUpEntry without the write of regs[0].
SetUpEntry_NoWrite(f) == [f EXCEPT !.log = Append(@, "WriteMethod")]

\* SetUpEntry that writes the callee into R1 instead of R0.
SetUpEntry_WrongSlot(f) ==
  [f EXCEPT !.regs = [@ EXCEPT ![1] = f.called], !.log = Append(@, "WriteMethod")]

\* Line 225: the frame after the entry into the method was set up.
SetUpEntry(f) ==
  [f EXCEPT !.regs = [@ EXCEPT ![0] = f.called], !.log = Append(@, "WriteMethod")]

\* Lines 213-226: hand the pending exception to exception delivery, or set
\* up the entry into the method.  f.pending keeps what was pending when the
\* step began.
Dispatch(t) ==
  /\ At(t, "dispatch")
  /\ LET f == [Top(t) EXCEPT !.pc = "return", !.pending = exception[t]]
         h == HandOffException(f, exception[t])
     IN  IF TakesExceptionPath(f.code)
         THEN /\ frames' = SetTop(t, h.frame)
              /\ exception' = [exception EXCEPT ![t] = h.pending]
              /\ UNCHANGED aborted
         ELSE IF ~IsInitializing(status)
         THEN /\ aborted' = "DCHECK failed: called->GetDeclaringClass()->IsInitializing()"
              /\ UNCHANGED <<frames, exception>>
         ELSE IF f.code = ResolutionStub
         THEN /\ aborted' = "DCHECK failed: code != resolution stub"
              /\ UNCHANGED <<frames, exception>>
         ELSE /\ frames' = SetTop(t, SetUpEntry(f))
              /\ UNCHANGED <<exception, aborted>>
  /\ UNCHANGED <<local_refs, calls, nested, status, clinit_thread, walk, backend>>

\* ~ScopedJniEnvLocalRefState: the local references go back to the state
\* saved on entry.
RestoreLocalRefs(table, cookie) == SubSeq(table, 1, cookie)

\* LeaveScope of a trampoline that declares no env_state.
LeaveScope_NoEnvState(table, cookie) == table

\* Line 228: env_state (line 87) goes out of scope.
LeaveScope(table, cookie) == RestoreLocalRefs(table, cookie)

\* Lines 227-228: return code; the scope of env_state (line 87) ends.
Return(t) ==
  /\ At(t, "return")
  /\ LET f == Top(t)
     IN  /\ frames' = SetTop(t, [f EXCEPT !.pc = "returned", !.entry = f.code])
         /\ local_refs' = [local_refs EXCEPT ![t] = LeaveScope(@, f.cookie)]
  /\ UNCHANGED <<exception, calls, nested, status, clinit_thread, aborted, walk, backend>>

\* The stub jumps to the entry the trampoline returned.
Resume(t) ==
  /\ At(t, "returned")
  /\ frames' = [frames EXCEPT ![t] = SubSeq(@, 1, Len(@) - 1)]
  /\ UNCHANGED <<exception, local_refs, calls, nested, status, clinit_thread, aborted, walk, backend>>

Next ==
  \E t \in Threads :
    \/ CallFromCode(t)
    \/ CallFromClinit(t)
    \/ Classify(t)
    \/ Scope(t)
    \/ Resolve(t)
    \/ CheckPending(t)
    \/ EnsureInitialized(t)
    \/ ClinitDone(t)
    \/ Gate(t)
    \/ Dispatch(t)
    \/ Return(t)
    \/ Resume(t)

Spec == Init /\ [][Next]_vars

\* ------------------------------------------------ shorty-walk specification
\* Lines 141-186 alone, over every shorty up to MaxShortyLen and every invoke
\* type: the walk of one call, one source loop per step.
ReturnTypes == {"V", "L"}
ArgTypes == {"I", "J", "D", "L"}

Shorties ==
  UNION {{<<r>> \o a : r \in ReturnTypes, a \in [1 .. n -> ArgTypes]} :
           n \in 0 .. MaxShortyLen - 1}

WalkInit ==
  /\ frames = [t \in Threads |-> <<>>]
  /\ exception = [t \in Threads |-> NULL]
  /\ local_refs = [t \in Threads |-> <<>>]
  /\ calls = 0
  /\ nested = 0
  /\ status = "Uninitialized"
  /\ clinit_thread = NULL
  /\ aborted = NULL
  /\ backend = [pc |-> "idle"]
  /\ walk \in {[pc |-> "receiver", shorty |-> s, invoke_type |-> k,
                w |-> [cur_arg |-> 0, args_in_regs |-> 0, shorty_index |-> 0,
                       refs |-> <<>>]] :
                 s \in Shorties, k \in InvokeTypes}

WalkUnchanged ==
  UNCHANGED <<frames, exception, local_refs, calls, nested, status, clinit_thread, aborted,
              backend>>

\* Lines 143-162.
WalkReceiver ==
  /\ walk.pc = "receiver"
  /\ walk' = [walk EXCEPT !.pc = "registers",
                          !.w = ScopeReceiver(walk.shorty, walk.invoke_type)]
  /\ WalkUnchanged

\* Lines 163-174.
WalkRegisterArgs ==
  /\ walk.pc = "registers"
  /\ walk' = [walk EXCEPT !.pc = "stack", !.w = ScopeRegisterArgs(walk.shorty, walk.w)]
  /\ WalkUnchanged

\* Lines 175-185.
WalkStackArgs ==
  /\ walk.pc = "stack"
  /\ walk' = [walk EXCEPT !.pc = "done",
                          !.w = ScopeStackArgs(walk.shorty, SkipToStackArgs(walk.w))]
  /\ WalkUnchanged

WalkNext == WalkReceiver \/ WalkRegisterArgs \/ WalkStackArgs

ShortyWalkSpec == WalkInit /\ [][WalkNext]_vars

\* -------------------------------------------------- backend specification
\* One call run through both builds of UnresolvedDirectMethodTrampolineFromCode
\* side by side: the callee-save frame build (lines 35-228) and the LLVM
\* build (lines 230-319).  Both get the same type, call site, class linker
\* and class; backend.st is the class status EnsureInitialized leaves and
\* backend.linked tells whether called->GetCode() is set.

\* The class statuses a caller of EnsureInitialized can find on its return.
StatusAfterEnsure == {"Initialized", "Initializing", "Erroneous"}

\* The exception EnsureInitialized leaves pending for a class of status st.
EnsureRaises(st) == IF st = "Erroneous" THEN "NoClassDefFoundError" ELSE NULL

\* called->GetCode() of a method that is linked or not linked yet.
CodeOf(called, linked) == IF linked THEN GetCode(called) ELSE NULL

\* Lines 230-238: the LLVM build on entry; called_addr is the word the
\* caller keeps the callee in.
LlvmFrame(type, called, opcode, idx) ==
  [type |-> type, called |-> called, opcode |-> opcode, vB |-> idx,
   invoke_type |-> "unset", dex_method_idx |-> -1, code |-> "unset",
   called_addr |-> "R0", observed |-> "none", log |-> <<>>]

\* Lines 245-265 and 270: the invoke type of the call; NULL stands for the
\* default label, LOG(FATAL).
LlvmInvokeType(type, instr_code) ==
  IF type = "kUnknownMethod"
  THEN CASE instr_code \in {"INVOKE_DIRECT", "INVOKE_DIRECT_RANGE"} -> "kDirect"
         [] instr_code \in {"INVOKE_STATIC", "INVOKE_STATIC_RANGE"} -> "kStatic"
         [] instr_code \in {"INVOKE_SUPER", "INVOKE_SUPER_RANGE"} -> "kSuper"
         [] instr_code \in {"INVOKE_VIRTUAL", "INVOKE_VIRTUAL_RANGE"} -> "kVirtual"
         [] OTHER -> NULL
  ELSE IF type = "kStaticMethod" THEN "kStatic" ELSE "kDirect"

\* Lines 239-272.
LlvmClassify(b) ==
  LET f == b.f
  IN  IF LlvmInvokeType(f.type, f.opcode) = NULL
      THEN [b EXCEPT !.aborted = "FATAL: Unexpected call into trampoline"]
      ELSE [b EXCEPT !.f = [f EXCEPT
              !.invoke_type = LlvmInvokeType(f.type, f.opcode),
              !.dex_method_idx = IF f.type = "kUnknownMethod" THEN f.vB
                                 ELSE GetDexMethodIndex(f.called)]]

\* Lines 273-275.
LlvmResolve(b) ==
  LET f == b.f
      r == ResolveMethod(f.dex_method_idx, f.invoke_type)
  IN  IF f.type = "kUnknownMethod"
      THEN [b EXCEPT !.f = [f EXCEPT !.called = r.method,
                                     !.log = Append(@, "ResolveMethod")],
                     !.exception = IF r.exception # NULL THEN r.exception ELSE @]
      ELSE b

\* LlvmSelectCode that takes GetCode() for a static call on an initializing
\* class.
LlvmSelectCode_NoStaticOat(st, invoke_type, code, oat) ==
  IF st \in {"Initialized", "Initializing"}
  THEN IF code = NULL THEN oat ELSE code
  ELSE NULL

\* Lines 283-308: the code to enter given the class status; a method whose
\* GetCode() is NULL is looked up in the oat file ("lazy link").
LlvmSelectCode(st, invoke_type, code, oat) ==
  IF IsInitialized(st)
  THEN IF code = NULL THEN oat ELSE code
  ELSE IF IsInitializing(st)
  THEN IF invoke_type = "kStatic" THEN oat
       ELSE IF code = NULL THEN oat ELSE code
  ELSE NULL

\* Lines 276-309.
LlvmGate(b, st, linked) ==
  LET f == b.f
  IN  IF b.exception # NULL
      THEN [b EXCEPT !.f = [f EXCEPT !.code = NULL]]
      ELSE IF CheckIncompatibleClassChange(f.called, f.invoke_type)
      THEN [b EXCEPT !.aborted =
              "CHECK failed: !called->CheckIncompatibleClassChange(invoke_type)"]
      ELSE [b EXCEPT
              !.exception = EnsureRaises(st),
              !.f = [f EXCEPT
                !.log = Append(@, "EnsureInitialized"),
                !.observed = st,
                !.code = LlvmSelectCode(st, f.invoke_type, CodeOf(f.called, linked),
                                        GetOatCodeFor(f.called))]]

\* Lines 310-318: with code the callee goes to *called_addr; without, NULL
\* is returned and the exception stays pending on the thread.
LlvmDispatch(b, st) ==
  LET f == b.f
  IN  IF f.code = NULL THEN [b EXCEPT !.ret = f.code]
      ELSE IF ~IsInitializing(st)
      THEN [b EXCEPT !.aborted =
              "DCHECK failed: called->GetDeclaringClass()->IsInitializing()"]
      ELSE IF f.code = ResolutionStub
      THEN [b EXCEPT !.aborted = "DCHECK failed: code != resolution stub"]
      ELSE [b EXCEPT !.ret = f.code,
                     !.f = [f EXCEPT !.called_addr = f.called,
                                     !.log = Append(@, "WriteMethod")]]

\* Lines 98-186 of the callee-save build.
CalleeSaveClassify(b) ==
  LET f == b.f
      k == IF f.type = "kUnknownMethod" THEN DecodeInvokeType(f.opcode)
           ELSE ExplicitInvokeType(f.type)
      shorty == IF f.type = "kUnknownMethod" THEN ShortyAt(f.vB)
                ELSE MethodShorty(f.called)
  IN  IF k = NULL
      THEN [b EXCEPT !.aborted = "FATAL: Unexpected call into trampoline"]
      ELSE [b EXCEPT !.f = [f EXCEPT
              !.invoke_type = k,
              !.dex_method_idx = IF f.type = "kUnknownMethod" THEN f.vB
                                 ELSE GetDexMethodIndex(f.called),
              !.shorty = shorty,
              !.log = @ \o RefEvents(ScopedRefs(shorty, k))]]

\* Lines 187-190 of the callee-save build.
CalleeSaveResolve(b) ==
  LET f == b.f
      r == ResolveMethod(f.dex_method_idx, f.invoke_type)
  IN  IF NeedsResolve(f.type)
      THEN [b EXCEPT !.f = [f EXCEPT !.called = r.method,
                                     !.log = Append(@, "ResolveMethod")],
                     !.exception = IF r.exception # NULL THEN r.exception ELSE @]
      ELSE b

\* Lines 191-212 of the callee-save build.
CalleeSaveGate(b, st, linked) ==
  LET f == b.f
  IN  IF ~ProceedsToGate(b.exception)
      THEN [b EXCEPT !.f = [f EXCEPT !.code = NULL]]
      ELSE IF CheckIncompatibleClassChange(f.called, f.invoke_type)
      THEN [b EXCEPT !.aborted =
              "CHECK failed: !called->CheckIncompatibleClassChange(invoke_type)"]
      ELSE [b EXCEPT
              !.exception = EnsureRaises(st),
              !.f = [f EXCEPT
                !.log = Append(@, "EnsureInitialized"),
                !.observed = st,
                !.code = SelectCodeFrom(st, f.invoke_type, CodeOf(f.called, linked),
                                        GetOatCodeFor(f.called))]]

\* Lines 213-227 of the callee-save build.
CalleeSaveDispatch(b, st) ==
  LET f == [b.f EXCEPT !.pending = b.exception]
      h == HandOffException(f, b.exception)
  IN  IF TakesExceptionPath(f.code)
      THEN [b EXCEPT !.f = h.frame, !.exception = h.pending, !.ret = h.frame.code]
      ELSE IF ~IsInitializing(st)
      THEN [b EXCEPT !.aborted =
              "DCHECK failed: called->GetDeclaringClass()->IsInitializing()"]
      ELSE IF f.code = ResolutionStub
      THEN [b EXCEPT !.aborted = "DCHECK failed: code != resolution stub"]
      ELSE [b EXCEPT !.f = SetUpEntry(f), !.ret = f.code]

\* The calls generated code can make, into either build, with the class in
\* any status EnsureInitialized can leave and the callee linked or not.
BackendCalls ==
  {[type |-> "kUnknownMethod", called |-> RuntimeMethod, opcode |-> o, vB |-> i] :
     o \in Opcodes, i \in DexMethodIdx}
  \cup {[type |-> "kStaticMethod", called |-> m, opcode |-> "none", vB |-> -1] :
          m \in {x \in Methods : MethodKind(x) = "static"}}
  \cup {[type |-> "kDirectMethod", called |-> m, opcode |-> "none", vB |-> -1] :
          m \in {x \in Methods : MethodKind(x) = "direct"}}

BackendInit ==
  /\ frames = [t \in Threads |-> <<>>]
  /\ exception = [t \in Threads |-> NULL]
  /\ local_refs = [t \in Threads |-> <<>>]
  /\ calls = 0
  /\ nested = 0
  /\ status = "Uninitialized"
  /\ clinit_thread = NULL
  /\ aborted = NULL
  /\ walk = [pc |-> "idle"]
  /\ backend \in
       {[pc |-> "classify", st |-> st, linked |-> linked,
         calleesave |-> [f |-> NewFrame("t1", c.type, c.called, c.opcode, c.vB),
                         exception |-> NULL, aborted |-> NULL, ret |-> "unset"],
         llvm |-> [f |-> LlvmFrame(c.type, c.called, c.opcode, c.vB),
                   exception |-> NULL, aborted |-> NULL, ret |-> "unset"]] :
          c \in BackendCalls, st \in StatusAfterEnsure, linked \in BOOLEAN}

BackendUnchanged ==
  UNCHANGED <<frames, exception, local_refs, calls, nested, status, clinit_thread, aborted,
              walk>>

\* Both builds are still running.
BackendAt(pc) ==
  /\ backend.pc = pc
  /\ backend.calleesave.aborted = NULL
  /\ backend.llvm.aborted = NULL

BackendClassify ==
  /\ BackendAt("classify")
  /\ backend' = [backend EXCEPT !.pc = "resolve",
                                !.calleesave = CalleeSaveClassify(@),
                                !.llvm = LlvmClassify(@)]
  /\ BackendUnchanged

BackendResolve ==
  /\ BackendAt("resolve")
  /\ backend' = [backend EXCEPT !.pc = "gate",
                                !.calleesave = CalleeSaveResolve(@),
                                !.llvm = LlvmResolve(@)]
  /\ BackendUnchanged

BackendGate ==
  /\ BackendAt("gate")
  /\ backend' = [backend EXCEPT
                   !.pc = "dispatch",
                   !.calleesave = CalleeSaveGate(@, backend.st, backend.linked),
                   !.llvm = LlvmGate(@, backend.st, backend.linked)]
  /\ BackendUnchanged

BackendDispatch ==
  /\ BackendAt("dispatch")
  /\ backend' = [backend EXCEPT !.pc = "done",
                                !.calleesave = CalleeSaveDispatch(@, backend.st),
                                !.llvm = LlvmDispatch(@, backend.st)]
  /\ BackendUnchanged

BackendNext == BackendClassify \/ BackendResolve \/ BackendGate \/ BackendDispatch

BackendSpec == BackendInit /\ [][BackendNext]_vars

\* ------------------------------------------------------------------ claims
\* The threads whose innermost invocation has returned and not yet resumed.
Returned == {t \in Threads : frames[t] # <<>> /\ Top(t).pc = "returned"}

\* The returned invocations that saw the class in status st with invoke type k.
ReturnedWith(st, k) ==
  {t \in Returned : Top(t).observed = st /\ Top(t).invoke_type = k}

C2_NeverReturnsStub ==
  /\ \A t \in Returned : Top(t).entry # ResolutionStub
  /\ aborted # "DCHECK failed: code != resolution stub"

\* A call has returned a method's entry on the success path.
C2_Witness ==
  \E t \in Returned :
    /\ Top(t).entry # DeliverException
    /\ Top(t).regs[0] \in Methods

\* C3: whatever the interleaving, an invocation that returns an entry other
\* than exception delivery does so while the class is Initializing or
\* Initialized, and the "at least initializing" assertion of line 221 never
\* fails.
C3_ResolvedImpliesInitializing ==
  /\ \A t \in Returned :
       Top(t).entry # DeliverException => status \in {"Initializing", "Initialized"}
  /\ aborted # "DCHECK failed: called->GetDeclaringClass()->IsInitializing()"

\* The initializing thread's nested call has returned a method's entry while
\* another thread waits in EnsureInitialized for the same class.
C3_Witness ==
  \E t \in Returned, u \in Threads :
    /\ u # t
    /\ Top(t).entry # DeliverException
    /\ status = "Initializing"
    /\ clinit_thread = t
    /\ frames[u] # <<>>
    /\ Top(u).pc = "ensure"

\* C4: an invocation that observes the class Initialized returns the
\* method's GetCode(), with the method in regs[0], and the entry is not the
\* resolution stub.
C4_InitializedReturnsCode ==
  \A t \in Returned :
    Top(t).observed = "Initialized" =>
      /\ Top(t).called \in Methods
      /\ Top(t).entry = "code_" \o Top(t).called
      /\ Top(t).regs[0] = Top(t).called
      /\ Top(t).entry # ResolutionStub

\* A resolved invoke-super call has returned for an Initialized class.
C4_Witness ==
  \E t \in ReturnedWith("Initialized", "kSuper") :
    /\ Top(t).type = "kUnknownMethod"
    /\ Top(t).entry = "code_vm"

\* C5: a call whose dex method index names no method returns the
\* exception-delivery entry with the exception object in regs[0] and no
\* exception pending on the thread.
C5_UnresolvableDelivers ==
  \A t \in Returned :
    (Top(t).type = "kUnknownMethod" /\ MethodAt(Top(t).dex_method_idx) = NULL) =>
      /\ Top(t).entry = DeliverException
      /\ Top(t).regs[0] = "NoSuchMethodError"
      /\ Top(t).regs[0] \notin Methods
      /\ Top(t).pending = "NoSuchMethodError"
      /\ exception[t] = NULL

\* A call with an unresolvable index has returned.
C5_Witness ==
  \E t \in Returned :
    /\ Top(t).type = "kUnknownMethod"
    /\ MethodAt(Top(t).dex_method_idx) = NULL
    /\ Top(t).entry = DeliverException

ChosenEntry(f) ==
  CASE f.observed = "Initialized" -> "code_" \o f.called
    [] f.observed = "Initializing" /\ f.invoke_type = "kStatic" -> "oat_" \o f.called
    [] f.observed = "Initializing" -> "code_" \o f.called
    [] OTHER -> NULL

\* C7: past the dispatcher, the exception-delivery entry is the result
\* exactly when an exception was pending on reaching the dispatcher; then
\* regs[0] holds that exception and none is pending; otherwise regs[0] holds
\* the callee and the result is the entry the gate chose.
C7_DeliverIffPending ==
  \A t \in Threads :
    (frames[t] # <<>> /\ Top(t).pc \in {"return", "returned"}) =>
      LET f == Top(t)
      IN  /\ f.code = DeliverException <=> f.pending # NULL
          /\ f.pending # NULL =>
               /\ f.pending \in Exceptions
               /\ f.regs[0] = f.pending
               /\ exception[t] = NULL
          /\ f.pending = NULL =>
               /\ f.called \in Methods
               /\ f.regs[0] = f.called
               /\ f.code = ChosenEntry(f)
          /\ f.pc = "returned" => f.entry = f.code

\* A call whose class initializer failed has returned through exception
\* delivery.
C7_Witness ==
  \E t \in Returned :
    /\ Top(t).pending = "ExceptionInInitializerError"
    /\ Top(t).entry = DeliverException
    /\ Top(t).called \in Methods

\* The argument word (1 = R1) in which parameter i of the shorty starts.
RECURSIVE ParamWord(_, _, _)
ParamWord(shorty, invoke_type, i) ==
  IF i = 1 THEN (IF invoke_type = "kStatic" THEN 1 ELSE 2)
  ELSE ParamWord(shorty, invoke_type, i - 1)
         + (IF shorty[i] \in {"J", "D"} THEN 2 ELSE 1)

\* The regs[] index of argument word k: R1..R3, then the caller's stack.
WordIndex(k) == IF k <= 3 THEN k ELSE k + 11

\* The regs[] indices of the receiver and of the object parameters, in order.
RECURSIVE ObjectWords(_, _, _)
ObjectWords(shorty, invoke_type, i) ==
  IF i >= Len(shorty) THEN <<>>
  ELSE (IF shorty[i + 1] = "L"
        THEN <<WordIndex(ParamWord(shorty, invoke_type, i))>> ELSE <<>>)
       \o ObjectWords(shorty, invoke_type, i + 1)

ExpectedRefs(shorty, invoke_type) ==
  (IF invoke_type = "kStatic" THEN <<>> ELSE <<1>>) \o ObjectWords(shorty, invoke_type, 1)

\* C8: the walk registers one reference per 'L' parameter, and one for the
\* receiver of a non-static call, each read from the regs[] index of its
\* argument word: words 1..3 in R1..R3, later words on the caller's stack,
\* 'J' and 'D' taking two words.
C8_ScopedRefsMatchShorty ==
  walk.pc = "done" =>
    /\ walk.w.refs = ExpectedRefs(walk.shorty, walk.invoke_type)
    /\ Len(walk.w.refs) =
         Cardinality({i \in 2 .. Len(walk.shorty) : walk.shorty[i] = "L"})
           + (IF walk.invoke_type = "kStatic" THEN 0 ELSE 1)

\* A static walk is done whose long straddles R3 and the stack, with an
\* object in R1 and one on the stack.
C8_Witness ==
  /\ walk.pc = "done"
  /\ walk.shorty = <<"V", "L", "I", "J", "L">>
  /\ walk.invoke_type = "kStatic"
  /\ walk.w.refs = <<1, 16>>

\* C9: on return the thread has as many local references open as on entry.
C9_RefsReleasedOnReturn ==
  \A t \in Returned : Len(local_refs[t]) = Top(t).cookie

\* A nested call that registered references, entered with references open,
\* has returned through exception delivery.
C9_Witness ==
  \E t \in Returned :
    /\ Len(frames[t]) = 2
    /\ Top(t).cookie > 0
    /\ "AddLocalReference" \in {Top(t).log[i] : i \in 1 .. Len(Top(t).log)}
    /\ Top(t).entry = DeliverException

\* The invoke type C10 names for a call-site opcode, NULL for the others.
NamedInvokeType(op) ==
  CASE op = "INVOKE_DIRECT" -> "kDirect"
    [] op = "INVOKE_DIRECT_RANGE" -> "kDirect"
    [] op = "INVOKE_STATIC" -> "kStatic"
    [] op = "INVOKE_STATIC_RANGE" -> "kStatic"
    [] op = "INVOKE_SUPER" -> "kSuper"
    [] op = "INVOKE_SUPER_RANGE" -> "kSuper"
    [] op = "INVOKE_VIRTUAL" -> "kVirtual"
    [] op = "INVOKE_VIRTUAL_RANGE" -> "kVirtual"
    [] OTHER -> NULL

\* A step of a thread whose kUnknownMethod call is at the classifier.
ClassifierStep(t) ==
  (frames[t] # <<>> /\ Top(t).pc = "classify" /\ Top(t).type = "kUnknownMethod") =>
    IF NamedInvokeType(Top(t).opcode) # NULL
    THEN frames'[t] # frames[t] =>
           frames'[t][Len(frames[t])].invoke_type = NamedInvokeType(Top(t).opcode)
    ELSE /\ frames'[t] = frames[t]
         /\ exception'[t] = exception[t]
         /\ local_refs'[t] = local_refs[t]

\* The process aborted at the classifier: some call sits there with an
\* opcode that is no invoke, its call state as on entry, nothing resolved
\* and no class initialization asked for.
AbortedAtClassifier ==
  \E t \in Threads :
    /\ frames[t] # <<>>
    /\ Top(t).pc = "classify"
    /\ Top(t).type = "kUnknownMethod"
    /\ NamedInvokeType(Top(t).opcode) = NULL
    /\ Top(t).regs = InitialRegs
    /\ Top(t).called = RuntimeMethod
    /\ Top(t).log = <<"FinishCalleeSaveFrameSetup", "ScopedJniEnvLocalRefState">>

\* C10: with kUnknownMethod the classifier gives invoke-direct(/range)
\* kDirect, invoke-static(/range) kStatic, invoke-super(/range) kSuper and
\* invoke-virtual(/range) kVirtual; a call with any other opcode never gets
\* past the classifier, and the fatal abort finds its call state untouched,
\* nothing resolved and no class initialization asked for.
C10_ClassifierMapping ==
  /\ [][\A t \in Threads : ClassifierStep(t)]_vars
  /\ [](aborted = "FATAL: Unexpected call into trampoline" => AbortedAtClassifier)
  /\ [](\A t \in Threads :
          (frames[t] # <<>> /\ Top(t).type = "kUnknownMethod" /\ Top(t).pc # "classify")
             => Top(t).invoke_type \in InvokeTypes)

\* The process has aborted on an opcode that is no invoke.
C10_Witness ==
  /\ aborted = "FATAL: Unexpected call into trampoline"
  /\ \E t \in Threads :
       /\ frames[t] # <<>>
       /\ Top(t).pc = "classify"
       /\ Top(t).opcode = "INVOKE_INTERFACE"

\* Event e is in the log.
Logged(log, e) == \E i \in 1 .. Len(log) : log[i] = e

\* C11: a static call that observes its class Initializing runs, from entry
\* to return, inside the class initializer of its own thread with the class
\* Initializing, and no step of the invocation changes the class status; it
\* raises nothing: no exception is pending at the dispatcher or on return and
\* the returned entry is not the exception-delivery entry.
C11_InitializingStaticRaisesNothing ==
  /\ [](\A t \in Threads :
          (/\ frames[t] # <<>>
           /\ Top(t).invoke_type = "kStatic"
           /\ Top(t).observed = "Initializing") =>
             /\ Len(frames[t]) = 2
             /\ frames[t][1].pc = "clinit"
             /\ status = "Initializing"
             /\ clinit_thread = t
             /\ exception[t] = NULL
             /\ Top(t).pc \in {"return", "returned"} =>
                  (Top(t).pending = NULL /\ Top(t).code # DeliverException)
             /\ Top(t).pc = "returned" => Top(t).entry # DeliverException)
  /\ [][\A t \in Threads :
          (Len(frames[t]) = 2 \/ Len(frames'[t]) = 2) => status' = status]_vars

\* A static explicit-type call made by the class initializer has returned.
C11_Witness ==
  \E t \in ReturnedWith("Initializing", "kStatic") :
    /\ Top(t).type = "kStaticMethod"
    /\ status = "Initializing"
    /\ exception[t] = NULL

\* The threads whose invocation is over: it has returned, or the process
\* has aborted under it.
Exited ==
  {t \in Threads : frames[t] # <<>> /\ (Top(t).pc = "returned" \/ aborted # NULL)}

\* C12: on every exit every word of regs[] but regs[0] has its value on
\* entry; on return regs[0] holds the callee or the exception, on an abort
\* its value on entry.
C12_OnlyResultSlotWritten ==
  \A t \in Exited :
    LET f == Top(t)
    IN  /\ f.regs = [InitialRegs EXCEPT ![0] = f.regs[0]]
        /\ IF f.pc \notin {"return", "returned"} THEN f.regs[0] = InitialRegs[0]
           ELSE IF f.code = DeliverException THEN f.regs[0] \in Exceptions
           ELSE f.regs[0] \in Methods

\* A call made by the class initializer, with references registered, has
\* returned through the exception path: regs[0] holds the exception.
C12_Witness ==
  \E t \in Returned :
    /\ Len(frames[t]) = 2
    /\ Top(t).regs[0] \in Exceptions
    /\ Len(Top(t).log) > 3

\* The events of a log.
Events(log) == {log[i] : i \in 1 .. Len(log)}

\* C13: an invocation that has exited past the resolve step has called
\* ResolveMethod exactly if its type is kUnknownMethod, and then with a
\* decoded invoke type; an explicit call has kStatic for kStaticMethod and
\* kDirect for any other type, and keeps the callee it was entered with.
C13_ResolveIffUnknown ==
  \A t \in Exited :
    LET f == Top(t)
    IN  /\ IF f.pc \in {"classify", "scope", "resolve"}
           THEN ~Logged(f.log, "ResolveMethod")
           ELSE /\ Logged(f.log, "ResolveMethod") <=> f.type = "kUnknownMethod"
                /\ f.invoke_type \in InvokeTypes
        /\ f.type # "kUnknownMethod" =>
             /\ f.called \in Methods
             /\ f.pc # "classify" =>
                  /\ f.invoke_type = (IF f.type = "kStaticMethod" THEN "kStatic" ELSE "kDirect")
                  /\ MethodAt(f.dex_method_idx) = f.called

\* An explicit direct call has returned its callee's code unresolved.
C13_Witness ==
  \E t \in Returned :
    /\ Top(t).type = "kDirectMethod"
    /\ Top(t).regs[0] = "dm"
    /\ "ResolveMethod" \notin Events(Top(t).log)

\* C14: a call whose resolution failed never calls EnsureInitialized and
\* never reads the missing callee; it goes from the pending check to the
\* dispatcher and out through exception delivery, and none of its steps
\* changes the class status.
C14_FailedResolutionSkipsGate ==
  /\ [](\A t \in Threads : \A d \in 1 .. Len(frames[t]) :
          LET f == frames[t][d]
          IN  (f.called = NULL) =>
                /\ f.pc \in {"check", "dispatch", "return", "returned"}
                /\ ~Logged(f.log, "EnsureInitialized")
                /\ f.observed = "none"
                /\ f.pc \in {"return", "returned"} => f.code = DeliverException)
  /\ [](aborted # "SIGSEGV: called is NULL")
  /\ [][\A t \in Threads :
          (frames[t] # <<>> /\ Top(t).called = NULL /\ frames'[t] # frames[t])
             => (status' = status /\ clinit_thread' = clinit_thread)]_vars

\* A call with an incompatible invoke kind has returned through exception
\* delivery while the class is still Uninitialized.
C14_Witness ==
  \E t \in Returned :
    /\ Top(t).called = NULL
    /\ Top(t).pending = "IncompatibleClassChangeError"
    /\ status = "Uninitialized"

\* The place of an event in the order of the steps.
Rank(e) ==
  CASE e = "FinishCalleeSaveFrameSetup" -> 0
    [] e = "ScopedJniEnvLocalRefState" -> 1
    [] e = "AddLocalReference" -> 2
    [] e = "ResolveMethod" -> 3
    [] e = "EnsureInitialized" -> 4
    [] e \in {"WriteMethod", "WriteException"} -> 5

\* C15: in the log of every invocation that has exited
\* FinishCalleeSaveFrameSetup comes first, before
\* any AddLocalReference, ResolveMethod or EnsureInitialized; the references
\* of the shorty are all registered before ResolveMethod; EnsureInitialized
\* comes after ResolveMethod and only with a resolved callee; regs[0] is
\* written last, after EnsureInitialized, when it was called, has returned.
C15_StepOrder ==
  \A t \in Exited :
    LET f == Top(t)
        log == f.log
        n == Len(log)
        k == Cardinality({i \in 2 .. Len(f.shorty) : f.shorty[i] = "L"})
               + (IF f.invoke_type = "kStatic" THEN 0 ELSE 1)
    IN  /\ log[1] = "FinishCalleeSaveFrameSetup"
        /\ \A i \in 1 .. n - 1 :
             \/ Rank(log[i]) < Rank(log[i + 1])
             \/ log[i] = "AddLocalReference" /\ log[i + 1] = "AddLocalReference"
        /\ f.pc \notin {"classify", "scope"} =>
             /\ n >= 2 + k
             /\ \A i \in 3 .. 2 + k : log[i] = "AddLocalReference"
             /\ n > 2 + k => log[3 + k] # "AddLocalReference"
        /\ (log[n] = "EnsureInitialized" \/ log[n - 1] = "EnsureInitialized") =>
             f.called \in Methods
        /\ Rank(log[n]) = 5 <=> f.pc \in {"return", "returned"}

\* A resolved call that registered references, initialized the class itself
\* and wrote the callee has returned.
C15_Witness ==
  \E t \in Returned :
    /\ {"AddLocalReference", "ResolveMethod", "EnsureInitialized", "WriteMethod"}
         \subseteq Events(Top(t).log)
    /\ Len(frames[t]) = 1
    /\ status = "Initialized"

\* C16: a direct, super or virtual call that observes its class Initializing
\* returns the callee's GetCode(), not the resolution stub and not the oat
\* lookup of the static case, with the callee in regs[0].
C16_NonStaticInitializingReturnsCode ==
  \A t \in Returned :
    (Top(t).observed = "Initializing"
       /\ Top(t).invoke_type \in {"kDirect", "kSuper", "kVirtual"}) =>
      /\ Top(t).called \in Methods
      /\ Top(t).entry = "code_" \o Top(t).called
      /\ Top(t).entry # ResolutionStub
      /\ Top(t).regs[0] = Top(t).called

\* The class initializer's virtual call has returned.
C16_Witness ==
  \E t \in ReturnedWith("Initializing", "kVirtual") :
    /\ Top(t).entry = "code_vm"
    /\ status = "Initializing"

\* The invoke kinds that fit a method kind.
FittingKinds(kind) ==
  CASE kind = "static" -> {"kStatic"}
    [] kind = "direct" -> {"kDirect"}
    [] kind = "virtual" -> {"kVirtual", "kSuper"}

\* C18: the CHECK of line 194 never fails, and every invocation that has
\* exited past the pending check with a callee has one that fits the invoke
\* kind in use, resolved or explicit.
C18_CalleeFitsInvokeKind ==
  /\ aborted # "CHECK failed: !called->CheckIncompatibleClassChange(invoke_type)"
  /\ \A t \in Exited :
       LET f == Top(t)
       IN  /\ (f.pc \notin {"classify", "scope", "resolve", "check"} /\ f.called # NULL) =>
                /\ f.called \in Methods
                /\ f.invoke_type \in FittingKinds(MethodKind(f.called))
           /\ (f.type # "kUnknownMethod" /\ f.pc # "classify") =>
                f.invoke_type \in FittingKinds(MethodKind(f.called))

\* An explicit static call and a resolved super call are both past the check.
C18_Witness ==
  \E t, u \in Threads :
    /\ t # u
    /\ frames[t] # <<>> /\ frames[u] # <<>>
    /\ Top(t).type = "kStaticMethod" /\ Top(t).pc = "gate"
    /\ Top(u).type = "kUnknownMethod" /\ Top(u).invoke_type = "kSuper"
    /\ Top(u).pc = "gate"

\* C19: on every return the thread has no exception pending: one that was
\* pending at the dispatcher is in regs[0] and the entry is exception
\* delivery; otherwise none was pending and the entry is the callee's.
C19_NoPendingOnReturn ==
  \A t \in Returned :
    /\ exception[t] = NULL
    /\ Top(t).entry = DeliverException =>
         (Top(t).pending \in Exceptions /\ Top(t).regs[0] = Top(t).pending)
    /\ Top(t).entry # DeliverException =>
         (Top(t).pending = NULL /\ Top(t).entry # NULL)

\* One thread has returned through exception delivery and the other with an
\* entry.
C19_Witness ==
  \E t, u \in Returned :
    /\ Top(t).entry = DeliverException
    /\ Top(u).entry \notin {DeliverException, NULL}

\* The class-linker calls of a log, in order.
IsLinkerCall(e) == e \in {"ResolveMethod", "EnsureInitialized"}

LinkerCalls(log) == SelectSeq(log, IsLinkerCall)

\* Both builds have returned from the call.
BothReturned ==
  /\ backend.pc = "done"
  /\ backend.calleesave.aborted = NULL
  /\ backend.llvm.aborted = NULL

\* What a build has done on return: the entry it returned and the callee it
\* wrote, or the exception it leaves for exception delivery (in regs[0] for
\* the callee-save build, pending on the thread for the LLVM build).
CalleeSaveOutcome ==
  LET b == backend.calleesave
  IN  IF b.ret = DeliverException THEN <<"failed", b.f.regs[0]>>
      ELSE <<"resolved", b.ret, b.f.regs[0]>>

LlvmOutcome ==
  LET b == backend.llvm
  IN  IF b.ret = NULL THEN <<"failed", b.exception>>
      ELSE <<"resolved", b.ret, b.f.called_addr>>

\* The builds made the same class-linker calls and stopped alike.
SameLinkerCalls ==
  /\ LinkerCalls(backend.calleesave.f.log) = LinkerCalls(backend.llvm.f.log)
  /\ backend.calleesave.aborted = backend.llvm.aborted
  /\ backend.calleesave.f.observed = backend.llvm.f.observed

LazyLinked ==
  /\ ~backend.linked
  /\ backend.llvm.f.observed # "none"
  /\ \/ backend.st = "Initialized"
     \/ backend.st = "Initializing" /\ backend.llvm.f.invoke_type # "kStatic"

====
